---------------------------- MODULE Spec2Model ----------------------------
(***************************************************************************)
(* Model of script.py: the word prioritisation (score_valid_word,          *)
(* get_prioritized_words) and the play loop of run_browser_automation,     *)
(* together with the part of main that calls them.                         *)
(*                                                                         *)
(* A Python str is a tuple of one-character strings, so that len(word),    *)
(* set(word) and str.strip() are computed and not assumed.  A Python dict  *)
(* is a function whose DOMAIN is its set of keys; the empty dict is << >>. *)
(***************************************************************************)
EXTENDS Integers, Sequences, FiniteSets, TLC

VARIABLES
    pc,            \* position of the single thread of control
    data,          \* what fetch_daily_words returned
    idx,           \* get_prioritized_words: index of the for loop over data["words"]
    scored_words,  \* get_prioritized_words: the list scored_words
    sorted_words,  \* history: scored_words as left by the sort of line 75
    words,         \* the list returned by get_prioritized_words
    exc,           \* the exception in flight ("none" when there is none)
    wi,            \* play loop: index of the current word
    ci,            \* play loop: index of the next character of the current word
    ui,            \* the page as left by the last submission
    stop,          \* play loop: which break was taken ("none" while none was)
    log            \* history: the calls made on the page and the sleeps, in order

vars == <<pc, data, idx, scored_words, sorted_words, words, exc, wi, ci, ui, stop, log>>

prioVars == <<idx, scored_words, sorted_words, words>>
playVars == <<wi, ci, ui, stop, log>>

(***************************************************************************)
(* Bounds of the model.                                                    *)
(***************************************************************************)
MaxWords == 3       \* longest data["words"] given to get_prioritized_words alone
MaxPlayWords == 3   \* longest data["words"] of a whole run of main

(***************************************************************************)
(* Strings.                                                                *)
(***************************************************************************)
Range(s) == {s[i] : i \in 1..Len(s)}

Min(S) == CHOOSE m \in S : \A n \in S : m <= n

Whitespace == {" ", "\n", "\t"}

\* str.strip(): drop the leading and the trailing whitespace
RECURSIVE LStrip(_)
LStrip(s) ==
    IF s # << >> /\ Head(s) \in Whitespace THEN LStrip(Tail(s)) ELSE s

RECURSIVE RStrip(_)
RStrip(s) ==
    IF s # << >> /\ s[Len(s)] \in Whitespace
    THEN RStrip(SubSeq(s, 1, Len(s) - 1))
    ELSE s

Strip(s) == RStrip(LStrip(s))

Genius == <<"G", "e", "n", "i", "u", "s">>

(***************************************************************************)
(* The words of the model.                                                 *)
(***************************************************************************)
Able == <<"a", "b", "l", "e">>
Label == <<"l", "a", "b", "e", "l">>
Bagel == <<"b", "a", "g", "e", "l">>
Abcdefg == <<"a", "b", "c", "d", "e", "f", "g">>
Abab14 == <<"a", "b", "a", "b", "a", "b", "a", "b", "a", "b", "a", "b", "a", "b">>

Vocabulary == {Able, Label, Bagel, Abcdefg, Abab14}
PlayVocabulary == {Able, Label}

\* One item of data["words"]: "word" with or without "is_pangram", or an
\* item with no "word" key.
Items(V) ==
    {[word |-> w] : w \in V}
        \cup {[word |-> w, is_pangram |-> f] : w \in V, f \in {0, 1}}
        \cup {[is_pangram |-> 0]}

Lists(S, n) == UNION {[1..k -> S] : k \in 0..n}

(***************************************************************************)
(* score_valid_word and get_prioritized_words.                             *)
(***************************************************************************)
score_valid_word_nofour(word) ==
    IF Cardinality(Range(word)) = 7 THEN Len(word) + 7 ELSE Len(word)

score_valid_word(word) ==
    IF Len(word) = 4
    THEN 1
    ELSE IF Cardinality(Range(word)) = 7 THEN Len(word) + 7 ELSE Len(word)

\* item.get("is_pangram", 0)
GetIsPangram(item) ==
    IF "is_pangram" \in DOMAIN item THEN item.is_pangram ELSE 0

\* lines 68-72: the dict appended to scored_words for an item with a "word"
ScoredItem(item) ==
    [word |-> item.word,
     score |-> score_valid_word(item.word),
     is_pangram |-> (GetIsPangram(item) = 1 \/ Cardinality(Range(item.word)) = 7)]

Pop(s, i) == SubSeq(s, 1, i - 1) \o SubSeq(s, i + 1, Len(s))

InsertAt(s, j, x) == SubSeq(s, 1, j - 1) \o <<x>> \o SubSeq(s, j, Len(s))

\* x goes before the first element of lower score: behind its equals
InsertDesc(s, x) ==
    LET lower == {j \in 1..Len(s) : s[j].score < x.score}
    IN  IF lower = {} THEN Append(s, x) ELSE InsertAt(s, Min(lower), x)

InsertDescBeforeEquals(s, x) ==
    LET notHigher == {j \in 1..Len(s) : s[j].score <= x.score}
    IN  IF notHigher = {} THEN Append(s, x) ELSE InsertAt(s, Min(notHigher), x)

RECURSIVE SortPrefixUnstable(_, _)
SortPrefixUnstable(s, n) ==
    IF n = 0 THEN << >> ELSE InsertDescBeforeEquals(SortPrefixUnstable(s, n - 1), s[n])

SortDescUnstable(s) == SortPrefixUnstable(s, Len(s))

RECURSIVE SortPrefix(_, _)
SortPrefix(s, n) ==
    IF n = 0 THEN << >> ELSE InsertDesc(SortPrefix(s, n - 1), s[n])

\* list.sort(key=score, reverse=True): descending and stable
SortDesc(s) == SortPrefix(s, Len(s))

NonPangrams(s) == {i \in 1..Len(s) : ~s[i].is_pangram}

Swap(s, i) ==
    [k \in 1..Len(s) |-> IF k = 1 THEN s[i] ELSE IF k = i THEN s[1] ELSE s[k]]

MoveNonPangramBySwap(s) ==
    IF s # << >> /\ s[1].is_pangram /\ NonPangrams(s) # {}
    THEN Swap(s, Min(NonPangrams(s)))
    ELSE s

MoveNonPangramNever(s) == s

\* lines 78-85: pop the first non-pangram and insert it at index 0
MoveNonPangram(s) ==
    IF s # << >> /\ s[1].is_pangram /\ NonPangrams(s) # {}
    THEN LET i == Min(NonPangrams(s)) IN <<s[i]>> \o Pop(s, i)
    ELSE s

\* lines 62-63
GpwGuard ==
    /\ pc = "gpw"
    /\ IF data = << >> \/ "words" \notin DOMAIN data
       THEN /\ words' = << >>
            /\ pc' = "gpw_ret"
            /\ UNCHANGED <<idx, scored_words>>
       ELSE /\ scored_words' = << >>
            /\ idx' = 1
            /\ pc' = "gpw_loop"
            /\ UNCHANGED words
    /\ UNCHANGED <<data, sorted_words, exc>>
    /\ UNCHANGED playVars

\* lines 67-72: one round of the for loop; item["word"] raises KeyError
GpwScoreItem ==
    /\ pc = "gpw_loop"
    /\ idx <= Len(data.words)
    /\ LET item == data.words[idx]
       IN  IF "word" \in DOMAIN item
           THEN /\ scored_words' = Append(scored_words, ScoredItem(item))
                /\ idx' = idx + 1
                /\ UNCHANGED <<pc, exc>>
           ELSE /\ exc' = "KeyError"
                /\ pc' = "crashed"
                /\ UNCHANGED <<scored_words, idx>>
    /\ UNCHANGED <<data, sorted_words, words>>
    /\ UNCHANGED playVars

\* line 75
GpwSort ==
    /\ pc = "gpw_loop"
    /\ idx > Len(data.words)
    /\ scored_words' = SortDesc(scored_words)
    /\ sorted_words' = scored_words'
    /\ pc' = "gpw_move"
    /\ UNCHANGED <<data, idx, words, exc>>
    /\ UNCHANGED playVars

\* lines 78-85
GpwMove ==
    /\ pc = "gpw_move"
    /\ scored_words' = MoveNonPangram(scored_words)
    /\ pc' = "gpw_return"
    /\ UNCHANGED <<data, idx, sorted_words, words, exc>>
    /\ UNCHANGED playVars

\* line 87
GpwReturn ==
    /\ pc = "gpw_return"
    /\ words' = [i \in 1..Len(scored_words) |-> scored_words[i].word]
    /\ pc' = "gpw_ret"
    /\ UNCHANGED <<data, idx, scored_words, sorted_words, exc>>
    /\ UNCHANGED playVars

(***************************************************************************)
(* get_prioritized_words on its own, over every input of the bounds.       *)
(***************************************************************************)
PrioInputs ==
    {<< >>, [puzzle |-> "p"]}
        \cup {[words |-> l] : l \in Lists(Items(Vocabulary), MaxWords)}

IdleUi == [rank |-> [kind |-> "absent"], queen |-> "hidden"]

InitPrio ==
    /\ data \in PrioInputs
    /\ pc = "gpw"
    /\ idx = 1
    /\ scored_words = << >>
    /\ sorted_words = << >>
    /\ words = << >>
    /\ exc = "none"
    /\ wi = 1
    /\ ci = 1
    /\ ui = IdleUi
    /\ stop = "none"
    /\ log = << >>

NextPrio ==
    \/ GpwGuard
    \/ GpwScoreItem
    \/ GpwSort
    \/ GpwMove
    \/ GpwReturn

SpecPrio == InitPrio /\ [][NextPrio]_vars

(***************************************************************************)
(* The page.  A submission leaves the page in some state: what a read of   *)
(* #rank-name gives (the read throws, no such element, or the element's    *)
(* inner text) and what the visibility probe of "Queen Bee" gives.         *)
(***************************************************************************)
PaddedGenius == <<" ", "G", "e", "n", "i", "u", "s", "\n">>
LowerGenius == <<"g", "e", "n", "i", "u", "s">>

RankLabels == {Genius, PaddedGenius, LowerGenius}

RankReads ==
    {[kind |-> "throws"], [kind |-> "absent"]}
        \cup {[kind |-> "label", text |-> t] : t \in RankLabels}

UiStates == [rank : RankReads, queen : {"visible", "hidden", "throws"}]

Sleep(kind) == [op |-> "sleep", kind |-> kind]

(***************************************************************************)
(* main, up to the call of run_browser_automation.                         *)
(***************************************************************************)
\* lines 288-290
MainFetched ==
    /\ pc = "main"
    /\ pc' = IF data = << >> THEN "done" ELSE "gpw"
    /\ UNCHANGED <<data, exc>>
    /\ UNCHANGED prioVars
    /\ UNCHANGED playVars

\* lines 294-303: no words, or generate_local_html returned None (no
\* template, or data["puzzle"] raised inside its try)
MainPrepare ==
    /\ pc = "gpw_ret"
    /\ IF words = << >>
       THEN pc' = "done"
       ELSE \E template \in BOOLEAN :
               pc' = IF template /\ "puzzle" \in DOMAIN data THEN "rba" ELSE "done"
    /\ UNCHANGED <<data, exc>>
    /\ UNCHANGED prioVars
    /\ UNCHANGED playVars

(***************************************************************************)
(* run_browser_automation.                                                 *)
(***************************************************************************)
\* the for statement of line 128 with the loop at word w
LoopAt(w) == IF w <= Len(words) THEN "type" ELSE "after"

\* lines 91-112: outside the try, so a failure to launch leaves the function
RbaLaunch ==
    /\ pc = "rba"
    /\ \E ok \in BOOLEAN :
          IF ok
          THEN pc' = "goto" /\ exc' = "none"
          ELSE pc' = "crashed" /\ exc' = "Error"
    /\ UNCHANGED data
    /\ UNCHANGED prioVars
    /\ UNCHANGED playVars

\* lines 115-128: goto, the Play button (its failure is passed over), sleep(2)
RbaGoto ==
    /\ pc = "goto"
    /\ \E ok \in BOOLEAN :
          IF ok
          THEN /\ log' = Append(log, Sleep("start"))
               /\ wi' = 1
               /\ ci' = 1
               /\ pc' = LoopAt(1)
               /\ exc' = "none"
          ELSE /\ pc' = "except"
               /\ exc' = "Error"
               /\ UNCHANGED <<log, wi, ci>>
    /\ UNCHANGED <<data, ui, stop>>
    /\ UNCHANGED prioVars

\* lines 131-134: type one character, then sleep 0.2 to 0.5 s
RbaTypeChar ==
    /\ pc = "type"
    /\ ci <= Len(words[wi])
    /\ \E ok \in BOOLEAN :
          LET call == [op |-> "type", w |-> wi, c |-> words[wi][ci], ok |-> ok]
          IN  IF ok
              THEN /\ log' = log \o <<call, Sleep("char")>>
                   /\ ci' = ci + 1
                   /\ UNCHANGED <<pc, exc>>
              ELSE /\ log' = Append(log, call)
                   /\ pc' = "except"
                   /\ exc' = "Error"
                   /\ UNCHANGED ci
    /\ UNCHANGED <<data, wi, ui, stop>>
    /\ UNCHANGED prioVars

\* lines 136-138: sleep 0.3 to 0.6 s, press Enter, sleep 1.5 s; the page
\* takes the state the submission leaves it in
RbaPressEnter ==
    /\ pc = "type"
    /\ ci > Len(words[wi])
    /\ \E ok \in BOOLEAN :
          LET call == [op |-> "press", w |-> wi, ok |-> ok]
          IN  IF ok
              THEN /\ log' = log \o <<Sleep("submit"), call, Sleep("settle")>>
                   /\ ui' \in UiStates
                   /\ pc' = "rank"
                   /\ UNCHANGED exc
              ELSE /\ log' = log \o <<Sleep("submit"), call>>
                   /\ pc' = "except"
                   /\ exc' = "Error"
                   /\ UNCHANGED ui
    /\ UNCHANGED <<data, wi, ci, stop>>
    /\ UNCHANGED prioVars

RbaProbeRankFatal ==
    /\ pc = "rank"
    /\ log' = Append(log, [op |-> "rank", w |-> wi, read |-> ui.rank])
    /\ IF ui.rank.kind = "throws"
       THEN pc' = "except" /\ exc' = "Error"
       ELSE pc' = "text" /\ UNCHANGED exc
    /\ UNCHANGED <<data, wi, ci, ui, stop>>
    /\ UNCHANGED prioVars

RbaProbeRankNoGrace ==
    /\ pc = "rank"
    /\ log' = Append(log, [op |-> "rank", w |-> wi, read |-> ui.rank])
    /\ IF ui.rank.kind = "label" /\ Strip(ui.rank.text) = Genius
       THEN stop' = "Genius" /\ pc' = "after"
       ELSE /\ pc' = IF ui.rank.kind = "throws" THEN "delay" ELSE "text"
            /\ UNCHANGED stop
    /\ UNCHANGED <<data, exc, wi, ci, ui>>
    /\ UNCHANGED prioVars

RbaProbeRankNoBreak ==
    /\ pc = "rank"
    /\ log' = Append(log, [op |-> "rank", w |-> wi, read |-> ui.rank])
    /\ pc' = IF ui.rank.kind = "throws" THEN "delay" ELSE "text"
    /\ UNCHANGED <<data, exc, wi, ci, ui, stop>>
    /\ UNCHANGED prioVars

\* lines 141-150 and 156-157: the read of #rank-name; sleep 3 s and break on
\* "Genius"; a read that throws goes to the except of line 156
RbaProbeRank ==
    /\ pc = "rank"
    /\ LET call == [op |-> "rank", w |-> wi, read |-> ui.rank]
       IN  CASE ui.rank.kind = "throws" ->
                   /\ log' = Append(log, call)
                   /\ pc' = "delay"
                   /\ UNCHANGED stop
             [] ui.rank.kind = "absent" ->
                   /\ log' = Append(log, call)
                   /\ pc' = "text"
                   /\ UNCHANGED stop
             [] ui.rank.kind = "label" ->
                   IF Strip(ui.rank.text) = Genius
                   THEN /\ log' = log \o <<call, Sleep("grace")>>
                        /\ stop' = "Genius"
                        /\ pc' = "after"
                   ELSE /\ log' = Append(log, call)
                        /\ pc' = "text"
                        /\ UNCHANGED stop
    /\ UNCHANGED <<data, exc, wi, ci, ui>>
    /\ UNCHANGED prioVars

\* lines 153-157: the visibility probe of "Queen Bee"; break when visible
RbaProbeText ==
    /\ pc = "text"
    /\ log' = Append(log, [op |-> "text", w |-> wi, read |-> ui.queen])
    /\ IF ui.queen = "visible"
       THEN stop' = "QueenBee" /\ pc' = "after"
       ELSE pc' = "delay" /\ UNCHANGED stop
    /\ UNCHANGED <<data, exc, wi, ci, ui>>
    /\ UNCHANGED prioVars

\* line 160, then the next round of the for loop
RbaWordDelay ==
    /\ pc = "delay"
    /\ log' = Append(log, Sleep("word"))
    /\ wi' = wi + 1
    /\ ci' = 1
    /\ pc' = LoopAt(wi + 1)
    /\ UNCHANGED <<data, exc, ui, stop>>
    /\ UNCHANGED prioVars

\* line 163
RbaAfterLoop ==
    /\ pc = "after"
    /\ log' = Append(log, Sleep("finish"))
    /\ pc' = "finally"
    /\ UNCHANGED <<data, exc, wi, ci, ui, stop>>
    /\ UNCHANGED prioVars

RbaExceptReraise ==
    /\ pc = "except"
    /\ log' = Append(log, [op |-> "caught"])
    /\ pc' = "finally"
    /\ UNCHANGED <<data, exc, wi, ci, ui, stop>>
    /\ UNCHANGED prioVars

\* lines 165-166: the error is printed and is no longer in flight
RbaExcept ==
    /\ pc = "except"
    /\ log' = Append(log, [op |-> "caught"])
    /\ exc' = "none"
    /\ pc' = "finally"
    /\ UNCHANGED <<data, wi, ci, ui, stop>>
    /\ UNCHANGED prioVars

\* lines 167-170: close page, context and browser, then leave the function:
\* back in main when nothing is in flight
RbaFinally ==
    /\ pc = "finally"
    /\ \E ok \in BOOLEAN :
          IF ok /\ exc = "none"
          THEN pc' = "video" /\ UNCHANGED exc
          ELSE pc' = "crashed" /\ exc' = "Error"
    /\ UNCHANGED data
    /\ UNCHANGED prioVars
    /\ UNCHANGED playVars

(***************************************************************************)
(* main, after run_browser_automation returned.                            *)
(***************************************************************************)
\* line 314: process_video catches its own errors
MainProcessVideo ==
    /\ pc = "video"
    /\ pc' = "upload"
    /\ UNCHANGED <<data, exc>>
    /\ UNCHANGED prioVars
    /\ UNCHANGED playVars

\* lines 318-323: upload when the video and the credentials are there
MainUpload ==
    /\ pc = "upload"
    /\ pc' = "done"
    /\ UNCHANGED <<data, exc>>
    /\ UNCHANGED prioVars
    /\ UNCHANGED playVars

(***************************************************************************)
(* A whole run of main.                                                    *)
(***************************************************************************)
PlayItems == {[word |-> w] : w \in PlayVocabulary} \cup {[is_pangram |-> 0]}

PlayInputs ==
    {<< >>, [puzzle |-> "p"]}
        \cup {[puzzle |-> "p", words |-> l] : l \in Lists(PlayItems, MaxPlayWords)}

Init ==
    /\ data \in PlayInputs
    /\ pc = "main"
    /\ idx = 1
    /\ scored_words = << >>
    /\ sorted_words = << >>
    /\ words = << >>
    /\ exc = "none"
    /\ wi = 1
    /\ ci = 1
    /\ ui = IdleUi
    /\ stop = "none"
    /\ log = << >>

Next ==
    \/ MainFetched
    \/ GpwGuard
    \/ GpwScoreItem
    \/ GpwSort
    \/ GpwMove
    \/ GpwReturn
    \/ MainPrepare
    \/ RbaLaunch
    \/ RbaGoto
    \/ RbaTypeChar
    \/ RbaPressEnter
    \/ RbaProbeRank
    \/ RbaProbeText
    \/ RbaWordDelay
    \/ RbaAfterLoop
    \/ RbaExcept
    \/ RbaFinally
    \/ MainProcessVideo
    \/ MainUpload

Spec == Init /\ [][Next]_vars

(***************************************************************************)
(* Claims about score_valid_word and get_prioritized_words (SpecPrio).     *)
(***************************************************************************)
Distinct(word) == Cardinality(Range(word))

HasWords == data # << >> /\ "words" \in DOMAIN data

Flagged(item) == "is_pangram" \in DOMAIN item /\ item.is_pangram = 1

WithScore(s, v) == LET T(x) == x.score = v IN SelectSeq(s, T)

Scores(s) == {s[i].score : i \in 1..Len(s)}

\* the input as scored records, in input order (every item has a "word")
InputScored == [i \in 1..Len(data.words) |-> ScoredItem(data.words[i])]

Moved == scored_words # sorted_words

\* C6: every scored word of length >= 4 has score 1 when its length is 4,
\* its length when the length is above 4 and it does not have exactly 7
\* distinct characters, its length plus 7 when it has exactly 7 distinct
\* characters; the is_pangram flag of the item plays no part.
C6_ScoreRule ==
    /\ \A i \in 1..Len(scored_words) :
          LET w == scored_words[i].word
              sc == scored_words[i].score
          IN  Len(w) >= 4 =>
                 /\ Len(w) = 4 => sc = 1
                 /\ (Len(w) > 4 /\ Distinct(w) # 7) => sc = Len(w)
                 /\ Distinct(w) = 7 => sc = Len(w) + 7
    /\ \A i, j \in 1..Len(scored_words) :
          scored_words[i].word = scored_words[j].word
              => scored_words[i].score = scored_words[j].score

C6_Witness ==
    /\ pc = "gpw_ret"
    /\ HasWords
    /\ \E i, j, k \in 1..Len(data.words) :
          /\ data.words[i] = [word |-> Able, is_pangram |-> 1]
          /\ data.words[j] = [word |-> Label, is_pangram |-> 1]
          /\ data.words[k] = [word |-> Abcdefg, is_pangram |-> 0]
    /\ Len(scored_words) = 3

\* C1 as stated: for a non-empty list with at least one word that does not
\* have 7 distinct characters, whatever the flags, the first returned word
\* does not have 7 distinct characters.
C1_Original ==
    (pc = "gpw_ret" /\ HasWords
        /\ \E i \in 1..Len(data.words) : Distinct(data.words[i].word) # 7)
    => Distinct(words[1]) # 7

\* C1 amended: for a non-empty list with at least one word that is neither
\* flagged is_pangram = 1 nor has 7 distinct characters, the first returned
\* word is such a word: it does not have 7 distinct characters and its item
\* is not flagged.
C1_FirstNotTreatedAsPangram ==
    (pc = "gpw_ret" /\ HasWords
        /\ \E i \in 1..Len(data.words) :
              ~Flagged(data.words[i]) /\ Distinct(data.words[i].word) # 7)
    => /\ Distinct(words[1]) # 7
       /\ words[1] = scored_words[1].word
       /\ \E i \in 1..Len(data.words) :
             /\ data.words[i].word = words[1]
             /\ ~Flagged(data.words[i])
             /\ scored_words[1] = ScoredItem(data.words[i])

C1_Witness ==
    /\ pc = "gpw_ret"
    /\ HasWords
    /\ Len(words) = 3
    /\ Distinct(sorted_words[1].word) = 7
    /\ Flagged(data.words[1])
    /\ Distinct(words[1]) # 7
    /\ Moved

\* C4 as stated: no exception is raised, and the returned list is as long as
\* the number of items that have a "word".
C4_NoExceptionAndLength ==
    /\ exc = "none"
    /\ (pc = "gpw_ret" /\ HasWords) =>
          Len(words) = Cardinality({i \in 1..Len(data.words) :
                                        "word" \in DOMAIN data.words[i]})

\* C5 as stated: in the returned list, the words of any one score are in
\* their input order.
C5_Original ==
    (pc = "gpw_ret" /\ HasWords) =>
        \A v \in Scores(scored_words) :
            LET T(w) == score_valid_word(w) = v
            IN  SelectSeq(words, T)
                    = SelectSeq([i \in 1..Len(data.words) |-> data.words[i].word], T)

\* C5 amended: the words of any one score are in their input order in the
\* list as sorted, and in the returned list apart from the one word the
\* pangram rule moved to the front (which may now precede words of its own
\* score that preceded it in the input).
C5_StableApartFromMoved ==
    (pc = "gpw_ret" /\ HasWords) =>
        /\ \A v \in Scores(sorted_words) :
              WithScore(sorted_words, v) = WithScore(InputScored, v)
        /\ \A v \in Scores(scored_words) :
              IF Moved /\ v = scored_words[1].score
              THEN \E k \in 1..Len(WithScore(InputScored, v)) :
                      /\ WithScore(InputScored, v)[k] = scored_words[1]
                      /\ WithScore(Tail(scored_words), v)
                             = Pop(WithScore(InputScored, v), k)
              ELSE WithScore(scored_words, v) = WithScore(InputScored, v)
        /\ words = [i \in 1..Len(scored_words) |-> scored_words[i].word]

C5_Witness ==
    /\ pc = "gpw_ret"
    /\ HasWords
    /\ Len(words) = 3
    /\ Moved
    /\ \E i, j \in 1..3 :
          /\ i < j
          /\ InputScored[i].score = InputScored[j].score
          /\ InputScored[i].word # InputScored[j].word
          /\ InputScored[j] = scored_words[1]
          /\ words[1] # words[2]
          /\ words[2] = InputScored[i].word

\* C9: when the top word of the sort is treated as a pangram and a word not
\* treated as one exists, the first such word goes to index 0, the words
\* that were before it each move back by one and the words after it stay;
\* otherwise the returned order is the order of the sort.
C9_ShiftNotSwap ==
    (pc \in {"gpw_return", "gpw_ret"} /\ HasWords) =>
        LET s == sorted_words
            r == scored_words
            np == {i \in 1..Len(s) : ~s[i].is_pangram}
        IN  /\ Len(r) = Len(s)
            /\ \A i \in 1..(Len(s) - 1) : s[i].score >= s[i + 1].score
            /\ \A v \in Scores(s) : WithScore(s, v) = WithScore(InputScored, v)
            /\ IF s # << >> /\ s[1].is_pangram /\ np # {}
               THEN /\ r[1] = s[Min(np)]
                    /\ \A j \in 1..Len(s) :
                          /\ j < Min(np) => r[j + 1] = s[j]
                          /\ j > Min(np) => r[j] = s[j]
               ELSE r = s
            /\ pc = "gpw_ret" => words = [i \in 1..Len(r) |-> r[i].word]

C9_Witness ==
    /\ pc = "gpw_ret"
    /\ HasWords
    /\ Len(sorted_words) = 3
    /\ sorted_words[1].is_pangram
    /\ sorted_words[2].is_pangram
    /\ ~sorted_words[3].is_pangram
    /\ sorted_words[1].word # sorted_words[2].word
    /\ words = <<sorted_words[3].word, sorted_words[1].word, sorted_words[2].word>>

(***************************************************************************)
(* Claims about the play loop and main (Spec).                             *)
(***************************************************************************)
IsSubmit(e) == e.op \in {"type", "press"}

IsSurface(e) == e.op \in {"type", "press", "rank", "text"}

Presses == {i \in 1..Len(log) : log[i].op = "press"}

Failures == {i \in 1..Len(log) : IsSubmit(log[i]) /\ ~log[i].ok}

ReadsGenius(r) == r.kind = "label" /\ Strip(r.text) = Genius

GeniusReads == {i \in 1..Len(log) : log[i].op = "rank" /\ ReadsGenius(log[i].read)}

\* the navigation succeeded and the for loop of line 128 was reached
LoopEntered == log # << >> /\ log[1] = Sleep("start")

LoopEnded == pc \in {"after", "finally", "video", "upload", "done", "crashed"}

\* the calls that submit word w: its characters in order, then Enter
WordCalls(w) ==
    [k \in 1..(Len(words[w]) + 1) |->
        IF k <= Len(words[w])
        THEN [op |-> "type", w |-> w, c |-> words[w][k], ok |-> TRUE]
        ELSE [op |-> "press", w |-> w, ok |-> TRUE]]

RECURSIVE AllCalls(_)
AllCalls(n) == IF n = 0 THEN << >> ELSE AllCalls(n - 1) \o WordCalls(n)

\* C2: once the rank label reads "Genius" after word k, Enter has been
\* pressed exactly k times and no call is ever made on the page again: no
\* character, no Enter and no probe for the words after k.
C2_GeniusStopsAfterK ==
    \A i \in GeniusReads :
        /\ Cardinality(Presses) = log[i].w
        /\ \A j \in 1..Len(log) : IsSurface(log[j]) => j <= i /\ log[j].w <= log[i].w
        /\ SelectSeq(log, IsSubmit) = AllCalls(log[i].w)
        /\ stop = "Genius"
        /\ LoopEnded

C2_Witness ==
    /\ pc = "done"
    /\ Len(words) = 3
    /\ \E i \in GeniusReads : log[i].w = 2 /\ log[i].read.text = PaddedGenius
    /\ Cardinality(Presses) = 2

\* C3: when every read of the rank label throws and every typing and Enter
\* succeeds, every word is submitted in order, the loop ends by exhausting
\* the list, never by a break, and nothing is raised out of the loop.
C3_ProbeFailuresTolerated ==
    (/\ LoopEntered
     /\ Failures = {}
     /\ \A i \in 1..Len(log) : log[i].op = "rank" => log[i].read.kind = "throws")
    => /\ stop = "none"
       /\ pc # "except"
       /\ \A i \in 1..Len(log) : log[i].op # "caught"
       /\ LET made == SelectSeq(log, IsSubmit)
          IN  /\ Len(made) <= Len(AllCalls(Len(words)))
              /\ made = SubSeq(AllCalls(Len(words)), 1, Len(made))
       /\ LoopEnded => /\ wi = Len(words) + 1
                       /\ SelectSeq(log, IsSubmit) = AllCalls(Len(words))

C3_Witness ==
    /\ pc = "done"
    /\ Len(words) = 3
    /\ words[1] # words[2]
    /\ Failures = {}
    /\ Cardinality({i \in 1..Len(log) : log[i].op = "rank"}) = 3
    /\ \A i \in 1..Len(log) : log[i].op = "rank" => log[i].read.kind = "throws"
    /\ ui.queen = "visible"

\* C7 as stated: after a submission the loop breaks if and only if the
\* trimmed rank label is "Genius" or "Queen Bee" is visible, a visible
\* "Queen Bee" also counting when the read of the rank label throws.
C7_StopIffEitherDetector ==
    /\ pc = "delay" =>
          ~((ui.rank.kind = "label" /\ Strip(ui.rank.text) = Genius)
                \/ ui.queen = "visible")
    /\ (pc = "after" /\ stop # "none") =>
          ((ui.rank.kind = "label" /\ Strip(ui.rank.text) = Genius)
                \/ ui.queen = "visible")

\* C8 as stated: after a failed typing or Enter the failure reaches the
\* caller, so main does not go on to the video and the upload.
C8_Original ==
    Failures # {} => pc \notin {"video", "upload", "done"}

\* C8 amended: a failed typing or Enter is the last call made on the page
\* (no retry, no later character or word); the failure is caught inside
\* run_browser_automation and is no longer in flight once the handler ran,
\* so that the function returns to main, which goes on to the video and
\* the upload, unless closing the browser fails.
C8_CaughtNotPropagated ==
    \A i \in Failures :
        /\ Failures = {i}
        /\ \A j \in 1..Len(log) : IsSurface(log[j]) => j <= i
        /\ stop = "none"
        /\ pc \in {"except", "finally", "video", "upload", "done", "crashed"}
        /\ pc # "except" => Len(log) = i + 1 /\ log[i + 1].op = "caught"
        /\ pc \in {"finally", "video", "upload", "done"} => exc = "none"

C8_Witness ==
    /\ pc = "upload"
    /\ exc = "none"
    /\ \E i \in Failures : log[i].op = "type" /\ log[i].w = 2
    /\ Len(words) = 3

\* C10 as stated: on every early stop the grace delay follows the trigger,
\* and neither an inter-word delay nor a call on the page does.
C10_Original ==
    stop # "none" =>
        \E i \in 1..Len(log) :
            /\ log[i].op \in {"rank", "text"}
            /\ i < Len(log)
            /\ log[i + 1] = Sleep("grace")
            /\ \A j \in (i + 1)..Len(log) :
                  ~IsSurface(log[j]) /\ log[j] # Sleep("word")

\* C10 amended: on a stop by the rank label "Genius" the grace delay
\* directly follows the read of the label; on a stop by a visible
\* "Queen Bee" there is no grace delay at all; in both, what follows the
\* trigger holds no inter-word delay and no call on the page.
C10_GraceOnlyOnGenius ==
    /\ stop = "Genius" =>
          \E i \in GeniusReads :
              /\ i < Len(log)
              /\ log[i + 1] = Sleep("grace")
              /\ \A j \in (i + 2)..Len(log) : log[j] = Sleep("finish")
    /\ stop = "QueenBee" =>
          \E i \in 1..Len(log) :
              /\ log[i] = [op |-> "text", w |-> wi, read |-> "visible"]
              /\ \A j \in (i + 1)..Len(log) : log[j] = Sleep("finish")
              /\ \A j \in 1..Len(log) : log[j] # Sleep("grace")
    /\ stop = "none" => \A j \in 1..Len(log) : log[j] # Sleep("grace")

C10_Witness ==
    /\ pc = "done"
    /\ stop = "QueenBee"
    /\ wi = 2
    /\ Len(words) = 3
    /\ log[Len(log)] = Sleep("finish")

====
